---- MODULE Spec2Model ----
(***************************************************************************)
(* State machine of the room styler front-end (src/index.tsx): the three   *)
(* image slots, the undo/redo history, the loading flag, and the           *)
(* asynchronous styling requests and base-image loads that act on them.    *)
(*                                                                         *)
(* An image (a base64 string with its MIME type, always assigned as a      *)
(* pair) is a tuple <<kind, n>>: <<"base", n>> is a room photo, the one    *)
(* sample n of SAMPLES resolves to or the content of an uploaded file (a   *)
(* file may hold the same photo as a sample); <<"styled", k>> is the image *)
(* returned by the k-th styling response that carried one.  NULL is the    *)
(* null slot.                                                              *)
(***************************************************************************)
EXTENDS Integers, Sequences, FiniteSets, Bags, TLC

\* ---------------------------------------------------------------- bounds
\* Styling responses with an image explored by Spec.
MaxStyled == 2
\* Styling responses with an image explored by SpecLedger (beyond capacity).
MaxPushes == 22
\* Undo, redo and sample-pick events explored by SpecLedger.
MaxLedgerEvents == 2
\* View events (zoom, pan, comparison, slider) explored by SpecView.
MaxViewEvents == 3
\* Asynchronous operations (styling requests, base-image loads, video jobs)
\* in flight at once.
MaxInFlight == 2
\* Distinct room photos the user picks or uploads.
MaxBaseImages == 2
\* Mouse events happen at clientX in {0, PointerStep, ...,
\* MaxPointer * PointerStep}.
MaxPointer == 1
\* The image is panned at most MaxPan pointer steps away from its place.
MaxPan == 1
\* While the comparison slider is dragged the pointer moves over clientX in
\* {0, PointerStep, ..., MaxSlider * PointerStep} (SpecCompare).
MaxSlider == 2

\* ------------------------------------------------------- program constants
MAX_HISTORY == 20
\* Zoom levels in hundredths: the initial level, the limit and the step.
ZOOM_ONE == 100
ZOOM_MAX == 300
ZOOM_STEP == 25
NumSamples == 3

NULL == <<>>

\* Texts shown in the response area; a text is a tuple of fragments and the
\* empty text is the empty tuple.
NoText == <<>>
ChooseImageText == <<"Please choose or upload a room image first.">>
DescribeText == <<"Please describe what you want to add to the room.">>
NoImageText ==
  <<"The model did not return an image. Please try a different prompt.">>
StyleErrorText(m) == <<"An error occurred: ", m>>
StyleFirstText == <<"Please style a room before generating a video.">>
\* The clapper-board character the video text begins with.  A TLA+ string
\* cannot hold a character outside the basic plane, so the fragment names
\* it by its code point.
ClapperBoard == "U+1F3AC"
VideoReadyText ==
  <<ClapperBoard, " Your 3D video tour is ready! Click play to watch.">>
VideoFailedText(m) ==
  <<"Video generation failed: ">> \o m
    \o <<". Please check your API key and try again.">>
UploadFailedText == <<"Failed to read the uploaded image.">>
SampleFailedText == <<"Error loading sample image. Please try again.">>
InitFailedText(m) == <<"Could not load sample images. Error: ", m>>
\* Text of a text part of a styling response.
ModelTexts == {<<"Here is your room.">>}
\* Messages of the errors a remote call or a read fails with.
ErrorMessages == {"Failed to fetch", "Quota exceeded"}
\* The text part of a response: one of ModelTexts, or NULL for none.
PartTexts == ModelTexts \cup {NULL}

\* Mouse events and the bounding rectangles their handlers read.  The
\* coordinates and the rectangles' sizes are chosen so that every quotient
\* the handlers compute is a whole number of hundredths.
PointerStep == 20
PointerCoords == {k * PointerStep : k \in 0..MaxPointer}
PointerRows == {0, PointerStep}
MouseEvents == [clientX : PointerCoords, clientY : PointerRows]
\* Mouse events on the diagonal of the image container.
DiagonalEvents == {[clientX |-> c, clientY |-> c] : c \in PointerCoords}
\* Mouse events outside the image container, on both sides of the
\* before/after container and inside it.
SliderEvents == [clientX : {k * PointerStep : k \in 0..MaxSlider},
                 clientY : {0}]
\* imageContainer.getBoundingClientRect()
ImageRect == [left |-> 0, top |-> 0, width |-> 100, height |-> 100]
\* Placement clicks: pointer coordinates in every third of the image
\* container, on both thresholds of getPlacementDescription and next to
\* them.
ClickCoords == {10, 32, 33, 50, 66, 67, 90}
ClickEvents == [clientX : ClickCoords, clientY : ClickCoords]
\* beforeAfterContainer.getBoundingClientRect()
SliderRect == [left |-> 10, top |-> 0, width |-> 20, height |-> 40]

Base(n) == <<"base", n>>
Styled(k) == <<"styled", k>>
BaseImages == {Base(n) : n \in 1..MaxBaseImages}
\* The gallery items whose photo is among the photos explored.
SamplePicks == {i \in 1..NumSamples : i <= MaxBaseImages}

VARIABLES
  currentImage,      \* currentImageBase64 / currentMimeType
  originalImage,     \* originalImageBase64 / originalMimeType
  lastStyledImage,   \* lastStyledImageBase64 / lastStyledMimeType
  history,           \* history: HistoryState[]
  historyIndex,      \* historyIndex (0-based, -1 when nothing was pushed)
  clickPosition,     \* clickPosition
  isComparisonMode,  \* isComparisonMode
  loading,           \* styleButton.disabled = promptInput.disabled = overlay shown
  responseText,      \* responseText.textContent, a tuple of text fragments
  videoButtonDisabled,   \* videoButton.disabled
  videoControlsHidden,   \* videoControls carries the class 'hidden'
  videoContainerHidden,  \* videoContainer carries the class 'hidden'
  messageInterval,   \* messageInterval: "none" for null, else the kind of
                     \* the timer the handle refers to
  timers,            \* bag of the setInterval timers that are running, by
                     \* kind ("style" or "video")
  actionButtonsDisabled, \* download/share/copy/toggleComparison buttons'
                         \* disabled (always assigned together)
  estimateCostDisabled,  \* estimateCostButton.disabled
  zoomButtonsDisabled,   \* zoomIn/zoomOut/zoomReset buttons' disabled
  zoomLevel,         \* zoomLevel, in hundredths (100 is 1.0)
  isDragging,        \* isDragging
  dragStartX,        \* dragStartX
  dragStartY,        \* dragStartY
  translateX,        \* translateX
  translateY,        \* translateY
  sliderPosition,    \* sliderPosition
  isSliderDragging,  \* isSliderDragging
  beforeImage,       \* image shown by beforeImage.src (NULL: none)
  afterImage,        \* image shown by afterImage.src (NULL: none)
  styleReqs,         \* bag of generateContent calls awaiting their response
  loads,             \* bag of urlToBase64 / fileToBase64 calls awaiting
                     \* their result, each the image it will deliver and
                     \* the handler that awaits it
  videoJobs,         \* bag of handleGenerateVideo calls awaiting a step
  costReqs,          \* number of handleEstimateCost calls awaiting their
                     \* response
  nextStyled,        \* number of styling responses that carried an image
  ledgerEvents,      \* number of events counted against the exploration
                     \* budget of SpecLedger or SpecView
  pushRun,           \* history variable kept by SpecLedger: styled results
                     \* pushed since the last undo or redo invocation
  styledSinceBase,   \* history variable: a request issued after the latest
                     \* setNewBaseImage has completed with an image
  lastOp             \* history variable: the handler that ran last

progVars == <<currentImage, originalImage, lastStyledImage, history,
              historyIndex, clickPosition, isComparisonMode, loading,
              responseText, videoButtonDisabled, videoControlsHidden,
              videoContainerHidden, messageInterval, timers,
              actionButtonsDisabled, estimateCostDisabled,
              zoomButtonsDisabled, zoomLevel, isDragging, dragStartX,
              dragStartY, translateX, translateY, sliderPosition,
              isSliderDragging, beforeImage, afterImage>>
envVars == <<styleReqs, loads, videoJobs, costReqs, nextStyled, ledgerEvents, pushRun,
             styledSinceBase, lastOp>>
vars == <<progVars, envVars>>

\* The program's module-level state as one value.
St ==
  [current |-> currentImage, original |-> originalImage,
   lastStyled |-> lastStyledImage, history |-> history,
   historyIndex |-> historyIndex, clickPosition |-> clickPosition,
   isComparisonMode |-> isComparisonMode, loading |-> loading,
   responseText |-> responseText,
   videoButtonDisabled |-> videoButtonDisabled,
   videoControlsHidden |-> videoControlsHidden,
   videoContainerHidden |-> videoContainerHidden,
   messageInterval |-> messageInterval, timers |-> timers,
   actionButtonsDisabled |-> actionButtonsDisabled,
   estimateCostDisabled |-> estimateCostDisabled,
   zoomButtonsDisabled |-> zoomButtonsDisabled,
   zoomLevel |-> zoomLevel, isDragging |-> isDragging,
   dragStartX |-> dragStartX, dragStartY |-> dragStartY,
   translateX |-> translateX, translateY |-> translateY,
   sliderPosition |-> sliderPosition,
   isSliderDragging |-> isSliderDragging,
   beforeImage |-> beforeImage, afterImage |-> afterImage]

Apply(s) ==
  /\ currentImage' = s.current
  /\ originalImage' = s.original
  /\ lastStyledImage' = s.lastStyled
  /\ history' = s.history
  /\ historyIndex' = s.historyIndex
  /\ clickPosition' = s.clickPosition
  /\ isComparisonMode' = s.isComparisonMode
  /\ loading' = s.loading
  /\ responseText' = s.responseText
  /\ videoButtonDisabled' = s.videoButtonDisabled
  /\ videoControlsHidden' = s.videoControlsHidden
  /\ videoContainerHidden' = s.videoContainerHidden
  /\ messageInterval' = s.messageInterval
  /\ timers' = s.timers
  /\ actionButtonsDisabled' = s.actionButtonsDisabled
  /\ estimateCostDisabled' = s.estimateCostDisabled
  /\ zoomButtonsDisabled' = s.zoomButtonsDisabled
  /\ zoomLevel' = s.zoomLevel
  /\ isDragging' = s.isDragging
  /\ dragStartX' = s.dragStartX
  /\ dragStartY' = s.dragStartY
  /\ translateX' = s.translateX
  /\ translateY' = s.translateY
  /\ sliderPosition' = s.sliderPosition
  /\ isSliderDragging' = s.isSliderDragging
  /\ beforeImage' = s.beforeImage
  /\ afterImage' = s.afterImage

\* --------------------------------------------------------------- helpers
\* Variant of setLoading that leaves the message timer alone.
setLoading_KeepsTimer(s, isLoading) ==
  [s EXCEPT !.loading = isLoading,
            !.videoButtonDisabled = isLoading \/ s.lastStyled = NULL]

\* setLoading: the overlay, the style button and prompt input, the video
\* button; when loading ends, the timer messageInterval refers to is
\* cleared.
setLoading(s, isLoading) ==
  LET shown == [s EXCEPT !.loading = isLoading,
                         !.videoButtonDisabled =
                            isLoading \/ s.lastStyled = NULL]
  IN IF ~isLoading /\ s.messageInterval # "none"
       THEN [shown EXCEPT
               !.timers = @ (-) SetToBag({s.messageInterval}),
               !.messageInterval = "none"]
       ELSE shown

\* messageInterval = setInterval(...): a timer of the given kind starts
\* and the handle refers to it.
setMessageInterval(s, kind) ==
  [s EXCEPT !.timers = @ (+) SetToBag({kind}), !.messageInterval = kind]

\* responseText.textContent = text
showText(s, text) == [s EXCEPT !.responseText = text]

\* Variant of updateActionButtons that enables the action buttons
\* whatever lastStyled is.
updateActionButtons_AlwaysEnabled(s) ==
  [s EXCEPT !.actionButtonsDisabled = FALSE,
            !.estimateCostDisabled = FALSE,
            !.zoomButtonsDisabled = (s.current = NULL)]

updateActionButtons(s) ==
  [s EXCEPT !.actionButtonsDisabled = (s.lastStyled = NULL),
            !.estimateCostDisabled = (s.lastStyled = NULL),
            !.zoomButtonsDisabled = (s.current = NULL)]

resetPlacementMarker(s) == [s EXCEPT !.clickPosition = NULL]

\* Variant of the splice that keeps the redo branch.
SpliceAfterCursor_KeepsRedo(s) == s.history

\* history.splice(historyIndex + 1)
SpliceAfterCursor(s) ==
  IF s.historyIndex < Len(s.history) - 1
    THEN SubSeq(s.history, 1, s.historyIndex + 1)
    ELSE s.history

\* Variants of addToHistory with a slip in the size limit.
addToHistory_NoEviction(s, img) ==
  [s EXCEPT !.history = Append(SpliceAfterCursor(s), img),
            !.historyIndex = @ + 1]

addToHistory_CursorAlwaysAdvances(s, img) ==
  LET pushed == Append(SpliceAfterCursor(s), img)
  IN IF Len(pushed) > MAX_HISTORY
       THEN [s EXCEPT !.history = Tail(pushed), !.historyIndex = @ + 1]
       ELSE [s EXCEPT !.history = pushed, !.historyIndex = @ + 1]

addToHistory_LimitOffByOne(s, img) ==
  LET pushed == Append(SpliceAfterCursor(s), img)
  IN IF Len(pushed) >= MAX_HISTORY
       THEN [s EXCEPT !.history = Tail(pushed)]
       ELSE [s EXCEPT !.history = pushed, !.historyIndex = @ + 1]

addToHistory(s, img) ==
  LET pushed == Append(SpliceAfterCursor(s), img)
  IN IF Len(pushed) > MAX_HISTORY
       THEN [s EXCEPT !.history = Tail(pushed)]
       ELSE [s EXCEPT !.history = pushed, !.historyIndex = @ + 1]

\* updateHistoryButtons: undoButton.disabled / redoButton.disabled, negated
canUndo(s) == s.historyIndex > 0
canRedo(s) == s.historyIndex < Len(s.history) - 1

\* Variant of handleUndo that falls back to the base image at the front.
handleUndo_FallsBackToOriginal(s) ==
  IF s.historyIndex > 0
    THEN LET state == s.history[(s.historyIndex - 1) + 1]
         IN updateActionButtons([s EXCEPT !.historyIndex = @ - 1,
                                          !.current = state,
                                          !.lastStyled = state])
    ELSE [s EXCEPT !.current = s.original]

\* Variant of handleUndo that leaves the styled image alone.
handleUndo_KeepsLastStyled(s) ==
  IF s.historyIndex > 0
    THEN LET state == s.history[(s.historyIndex - 1) + 1]
         IN updateActionButtons([s EXCEPT !.historyIndex = @ - 1,
                                          !.current = state])
    ELSE s

handleUndo(s) ==
  IF s.historyIndex > 0
    THEN LET state == s.history[(s.historyIndex - 1) + 1]
         IN updateActionButtons([s EXCEPT !.historyIndex = @ - 1,
                                          !.current = state,
                                          !.lastStyled = state])
    ELSE s

\* Variant of handleRedo that leaves the styled image alone.
handleRedo_KeepsLastStyled(s) ==
  IF s.historyIndex < Len(s.history) - 1
    THEN LET state == s.history[(s.historyIndex + 1) + 1]
         IN updateActionButtons([s EXCEPT !.historyIndex = @ + 1,
                                          !.current = state])
    ELSE s

handleRedo(s) ==
  IF s.historyIndex < Len(s.history) - 1
    THEN LET state == s.history[(s.historyIndex + 1) + 1]
         IN updateActionButtons([s EXCEPT !.historyIndex = @ + 1,
                                          !.current = state,
                                          !.lastStyled = state])
    ELSE s

\* Variant of setNewBaseImage that forgets to reset the styled image.
setNewBaseImage_KeepsLastStyled(s, img) ==
  updateActionButtons(
    [resetPlacementMarker(s) EXCEPT
       !.current = img,
       !.original = img,
       !.videoControlsHidden = TRUE,
       !.videoContainerHidden = TRUE,
       !.videoButtonDisabled = TRUE,
       !.isComparisonMode = FALSE])

\* Variant of setNewBaseImage that does not store the original.
setNewBaseImage_SkipsOriginal(s, img) ==
  updateActionButtons(
    [resetPlacementMarker(s) EXCEPT
       !.current = img,
       !.lastStyled = NULL,
       !.videoControlsHidden = TRUE,
       !.videoContainerHidden = TRUE,
       !.videoButtonDisabled = TRUE,
       !.isComparisonMode = FALSE])

\* Variant of setNewBaseImage that leaves comparison mode as it is.
setNewBaseImage_KeepsComparison(s, img) ==
  updateActionButtons(
    [resetPlacementMarker(s) EXCEPT
       !.current = img,
       !.original = img,
       !.lastStyled = NULL,
       !.videoControlsHidden = TRUE,
       !.videoContainerHidden = TRUE,
       !.videoButtonDisabled = TRUE])

setNewBaseImage(s, img) ==
  updateActionButtons(
    [resetPlacementMarker(s) EXCEPT
       !.current = img,
       !.original = img,
       !.lastStyled = NULL,
       !.videoControlsHidden = TRUE,
       !.videoContainerHidden = TRUE,
       !.videoButtonDisabled = TRUE,
       !.isComparisonMode = FALSE])

\* ------------------------------------------------------------ zoom and pan
\* Variant of handleZoomIn without the upper limit.
handleZoomIn_NoLimit(s) == [s EXCEPT !.zoomLevel = @ + ZOOM_STEP]

handleZoomIn(s) ==
  IF s.zoomLevel < ZOOM_MAX
    THEN [s EXCEPT !.zoomLevel = @ + ZOOM_STEP]
    ELSE s

\* Variant of handleZoomOut that stops one step above 1.0.
handleZoomOut_StopsEarly(s) ==
  IF s.zoomLevel > ZOOM_ONE + ZOOM_STEP
    THEN [s EXCEPT !.zoomLevel = @ - ZOOM_STEP]
    ELSE s

handleZoomOut(s) ==
  IF s.zoomLevel > ZOOM_ONE
    THEN IF s.zoomLevel - ZOOM_STEP = ZOOM_ONE
           THEN [s EXCEPT !.zoomLevel = ZOOM_ONE,
                          !.translateX = 0, !.translateY = 0]
           ELSE [s EXCEPT !.zoomLevel = @ - ZOOM_STEP]
    ELSE s

handleZoomReset(s) ==
  [s EXCEPT !.zoomLevel = ZOOM_ONE, !.translateX = 0, !.translateY = 0]

\* e is the mouse event: [clientX |-> , clientY |-> ]
handleDragStart(s, e) ==
  IF s.zoomLevel > ZOOM_ONE
    THEN [s EXCEPT !.isDragging = TRUE,
                   !.dragStartX = e.clientX - s.translateX,
                   !.dragStartY = e.clientY - s.translateY]
    ELSE s

\* Variant of handleDragMove that pans at every zoom level.
handleDragMove_IgnoresZoom(s, e) ==
  IF s.isDragging
    THEN [s EXCEPT !.translateX = e.clientX - s.dragStartX,
                   !.translateY = e.clientY - s.dragStartY]
    ELSE s

handleDragMove(s, e) ==
  IF s.isDragging /\ s.zoomLevel > ZOOM_ONE
    THEN [s EXCEPT !.translateX = e.clientX - s.dragStartX,
                   !.translateY = e.clientY - s.dragStartY]
    ELSE s

handleDragEnd(s) ==
  IF s.isDragging THEN [s EXCEPT !.isDragging = FALSE] ELSE s

\* --------------------------------------------------------------- comparison
\* Variant of toggleComparison that takes the "before" image from current.
toggleComparison_BeforeIsCurrent(s) ==
  IF ~s.isComparisonMode
    THEN [s EXCEPT
            !.isComparisonMode = TRUE,
            !.beforeImage = IF s.current # NULL THEN s.current ELSE @,
            !.afterImage = IF s.lastStyled # NULL THEN s.lastStyled ELSE @]
    ELSE [s EXCEPT !.isComparisonMode = FALSE]

toggleComparison(s) ==
  IF ~s.isComparisonMode
    THEN [s EXCEPT
            !.isComparisonMode = TRUE,
            !.beforeImage = IF s.original # NULL THEN s.original ELSE @,
            !.afterImage = IF s.lastStyled # NULL THEN s.lastStyled ELSE @]
    ELSE [s EXCEPT !.isComparisonMode = FALSE]

Max(a, b) == IF a > b THEN a ELSE b
Min(a, b) == IF a < b THEN a ELSE b

\* Variant of sliderMouseMove without the clamp.
sliderMouseMove_NoClamp(s, e, rect) ==
  IF s.isSliderDragging /\ s.isComparisonMode
    THEN LET x == e.clientX - rect.left
         IN [s EXCEPT !.sliderPosition = (x * 100) \div rect.width]
    ELSE s

\* The document's mousemove listener; rect is the bounding rectangle of
\* the before/after container.
sliderMouseMove(s, e, rect) ==
  IF s.isSliderDragging /\ s.isComparisonMode
    THEN LET x == e.clientX - rect.left
         IN [s EXCEPT !.sliderPosition =
                        Max(0, Min(100, (x * 100) \div rect.width))]
    ELSE s

\* The document's mouseup listener.
sliderMouseUp(s) == [s EXCEPT !.isSliderDragging = FALSE]

\* Variant of applyStyledResult that shows the image without recording it.
applyStyledResult_SkipsHistory(s, data) ==
  [updateActionButtons([s EXCEPT !.current = data, !.lastStyled = data])
   EXCEPT !.videoControlsHidden = FALSE, !.videoButtonDisabled = FALSE]

\* Variant of applyStyledResult that takes the result as the new original.
applyStyledResult_ReplacesOriginal(s, data) ==
  [updateActionButtons(
     addToHistory([s EXCEPT !.current = data, !.lastStyled = data,
                            !.original = data], data))
   EXCEPT !.videoControlsHidden = FALSE, !.videoButtonDisabled = FALSE]

\* The part of handleStyleRoom that runs when the response carries an image.
applyStyledResult(s, data) ==
  [updateActionButtons(
     addToHistory([s EXCEPT !.current = data, !.lastStyled = data], data))
   EXCEPT !.videoControlsHidden = FALSE, !.videoButtonDisabled = FALSE]

\* Value of lastOp after handler op ran.  Besides the handler's inputs it
\* records what later state is compared with: cmp is isComparisonMode
\* before setNewBaseImage ran; zoom is zoomLevel before a zoomIn ran and,
\* for a zoomOut that directly follows a zoomIn, zoomLevel before that
\* zoomIn (0 for every other handler); value: the handler's input (for a
\* style click promptInput.value, for a resolved video operation or fetch
\* what it reported, as OperationReport or FetchReport give it).
Op(op) ==
  [op |-> op, img |-> NULL, stale |-> FALSE, err |-> "", zoom |-> 0,
   cmp |-> FALSE, value |-> NULL]

\* ---------------------------------------------------------------- initial
\* Module evaluation ends inside initialize(): setLoading(true) is done and
\* the fetch of the first sample is awaited.  What the page's markup says
\* about the action buttons, the zoom buttons and the video controls is
\* left open: the script assigns them first in setNewBaseImage.
Init ==
  /\ currentImage = NULL
  /\ originalImage = NULL
  /\ lastStyledImage = NULL
  /\ history = <<>>
  /\ historyIndex = -1
  /\ clickPosition = NULL
  /\ isComparisonMode = FALSE
  /\ loading = TRUE
  /\ responseText = NoText
  /\ videoButtonDisabled = TRUE
  /\ videoControlsHidden \in BOOLEAN
  /\ videoContainerHidden \in BOOLEAN
  /\ messageInterval = "none"
  /\ timers = EmptyBag
  /\ actionButtonsDisabled \in BOOLEAN
  /\ estimateCostDisabled \in BOOLEAN
  /\ costReqs = 0
  /\ zoomButtonsDisabled \in BOOLEAN
  /\ zoomLevel = ZOOM_ONE
  /\ isDragging = FALSE
  /\ dragStartX = 0
  /\ dragStartY = 0
  /\ translateX = 0
  /\ translateY = 0
  /\ sliderPosition = 50
  /\ isSliderDragging = FALSE
  /\ beforeImage = NULL
  /\ afterImage = NULL
  /\ styleReqs = EmptyBag
  /\ loads = SetToBag({[img |-> Base(1), by |-> "init"]})
  /\ nextStyled = 0
  /\ ledgerEvents = 0
  /\ pushRun = 0
  /\ styledSinceBase = FALSE
  /\ videoJobs = EmptyBag
  /\ lastOp = Op("init")

\* History-variable bookkeeping: every request in flight when a new base
\* image is set was issued before it.
MarkStale(q) ==
  LET marked == {[r EXCEPT !.stale = TRUE] : r \in BagToSet(q)}
  IN [t \in marked |->
        CopiesIn(t, q) + CopiesIn([t EXCEPT !.stale = FALSE], q)]

\* Number of awaited operations.
InFlight ==
  BagCardinality(styleReqs) + BagCardinality(loads)
    + BagCardinality(videoJobs) + costReqs

\* ---------------------------------------------------------------- actions
\* Sample item click: setLoading(true), then await urlToBase64(sample.url).
SampleClick(i) ==
  /\ InFlight < MaxInFlight
  /\ Apply(setLoading(St, TRUE))
  /\ loads' = loads (+) SetToBag({[img |-> Base(i), by |-> "sample"]})
  /\ lastOp' = Op("sampleClick")
  /\ UNCHANGED <<styleReqs, videoJobs, nextStyled, styledSinceBase,
               costReqs>>

\* Upload input change with a file: setLoading(true), the response text is
\* cleared, await fileToBase64.
UploadChange(img) ==
  /\ InFlight < MaxInFlight
  /\ Apply(showText(setLoading(St, TRUE), NoText))
  /\ loads' = loads (+) SetToBag({[img |-> img, by |-> "upload"]})
  /\ lastOp' = Op("uploadChange")
  /\ UNCHANGED <<styleReqs, videoJobs, nextStyled, styledSinceBase,
               costReqs>>

\* The awaited read resolves: setNewBaseImage, then setLoading(false).
LoadDone(l) ==
  /\ BagIn(l, loads)
  /\ Apply(setLoading(setNewBaseImage(St, l.img), FALSE))
  /\ loads' = loads (-) SetToBag({l})
  /\ styleReqs' = MarkStale(styleReqs)
  /\ styledSinceBase' = FALSE
  /\ lastOp' = [Op("setNewBaseImage") EXCEPT !.img = l.img,
                                             !.cmp = isComparisonMode]
  /\ UNCHANGED <<videoJobs, nextStyled, costReqs>>

\* The text the handler that started load l shows when the read rejects
\* with message m.
loadFailedText(l, m) ==
  CASE l.by = "init" -> InitFailedText(m)
    [] l.by = "sample" -> SampleFailedText
    [] l.by = "upload" -> UploadFailedText

\* The awaited read rejects: message, then setLoading(false).
LoadFail(l, m) ==
  /\ BagIn(l, loads)
  /\ Apply(setLoading(showText(St, loadFailedText(l, m)), FALSE))
  /\ loads' = loads (-) SetToBag({l})
  /\ lastOp' = [Op("loadFailed") EXCEPT
                  !.err = IF l.by = "init" THEN m ELSE ""]
  /\ UNCHANGED <<styleReqs, videoJobs, nextStyled, styledSinceBase,
               costReqs>>

\* Variant of getPlacementDescription with the axes exchanged.
getPlacementDescription_SwapsAxes(x, y) ==
  LET vertical == IF x < 33 THEN "top" ELSE IF x > 66 THEN "bottom" ELSE ""
      horizontal == IF y < 33 THEN "left" ELSE IF y > 66 THEN "right" ELSE ""
  IN IF vertical = "" /\ horizontal = "" THEN <<"in the center">>
     ELSE IF vertical = "" THEN <<"on the ", horizontal, " side">>
     ELSE IF horizontal = "" THEN <<"at the ", vertical>>
     ELSE <<"in the ", vertical, " ", horizontal, " corner">>

\* The phrase for a click position; x and y are fractions of the image
\* container's size in hundredths.  A phrase is a tuple of fragments.
getPlacementDescription(x, y) ==
  LET vertical == IF y < 33 THEN "top" ELSE IF y > 66 THEN "bottom" ELSE ""
      horizontal == IF x < 33 THEN "left" ELSE IF x > 66 THEN "right" ELSE ""
  IN IF vertical = "" /\ horizontal = "" THEN <<"in the center">>
     ELSE IF vertical = "" THEN <<"on the ", horizontal, " side">>
     ELSE IF horizontal = "" THEN <<"at the ", vertical>>
     ELSE <<"in the ", vertical, " ", horizontal, " corner">>

\* The placement text handleStyleRoom appends to the prompt (NULL: none).
placementText(s) ==
  IF s.clickPosition # NULL
    THEN getPlacementDescription(s.clickPosition.x, s.clickPosition.y)
    ELSE NULL

\* Values of the prompt input: tuples of fragments, the whitespace
\* characters being fragments of their own.
Whitespace == {" ", "\n"}
PromptValues ==
  {<<>>, <<" ">>, <<"add a sofa">>, <<" ", "add a sofa", "\n", " ">>}
\* The values entered in SpecRequest: a second instruction, with inner
\* whitespace, beside the ones above.
RequestPrompts ==
  PromptValues \cup {<<"\n", "add", " ", "a lamp", " ">>, <<"add", " ", "a lamp">>}

\* String.prototype.trim: the value without leading and trailing
\* whitespace.
RECURSIVE trim(_)
trim(v) ==
  IF v = <<>> THEN v
  ELSE IF Head(v) \in Whitespace THEN trim(Tail(v))
  ELSE IF v[Len(v)] \in Whitespace THEN trim(SubSeq(v, 1, Len(v) - 1))
  ELSE v

\* Variant of promptText that sends the prompt value as entered.
promptText_Untrimmed(s, value) ==
  IF s.clickPosition # NULL
    THEN value \o <<" ">> \o placementText(s)
    ELSE value

\* The text part of the request: the trimmed prompt value, followed by a
\* space and the placement phrase when a click position is set.
promptText(s, value) ==
  LET prompt == trim(value)
  IN IF s.clickPosition # NULL
       THEN prompt \o <<" ">> \o placementText(s)
       ELSE prompt

\* Variant of styleRejected that checks after the marker was reset.
styleRejected_ResetsMarker(s) ==
  resetPlacementMarker(
    showText(s, IF s.current = NULL THEN ChooseImageText ELSE DescribeText))

\* handleStyleRoom up to its await, when it returns early.
styleRejected(s) ==
  showText(s, IF s.current = NULL THEN ChooseImageText ELSE DescribeText)

\* Variant of styleDispatched that leaves the placement marker in place.
styleDispatched_KeepsMarker(s) ==
  showText(setMessageInterval(setLoading(s, TRUE), "style"), NoText)

\* handleStyleRoom up to its await, when it sends the request.
styleDispatched(s) ==
  resetPlacementMarker(
    showText(setMessageInterval(setLoading(s, TRUE), "style"), NoText))

\* Style button click (possible only while the button is enabled).
\* value: promptInput.value at the click.
StyleClick(value) ==
  /\ ~loading
  /\ IF currentImage = NULL \/ trim(value) = <<>>
       THEN /\ Apply(styleRejected(St))
            /\ lastOp' = [Op("styleRejected") EXCEPT !.value = value]
            /\ UNCHANGED styleReqs
       ELSE /\ InFlight < MaxInFlight
            /\ Apply(styleDispatched(St))
            /\ styleReqs' = styleReqs (+)
                 SetToBag({[img |-> currentImage, stale |-> FALSE,
                            hint |-> placementText(St),
                            text |-> promptText(St, value)]})
            /\ lastOp' = [Op("styleDispatch") EXCEPT !.value = value]
  /\ UNCHANGED <<loads, videoJobs, nextStyled, styledSinceBase, costReqs>>

\* A text part of the response: responseText.textContent = part.text.
\* text is NULL when the response has no text part.
showPartText(s, text) == IF text = NULL THEN s ELSE showText(s, text)

\* The response to request r arrives with an image part (and text parts
\* when text is not NULL).
StyleResponseImage(r, cap, text) ==
  /\ BagIn(r, styleReqs)
  /\ nextStyled < cap
  /\ LET data == Styled(nextStyled + 1)
     IN /\ Apply(setLoading(
                   applyStyledResult(showPartText(St, text), data), FALSE))
        /\ lastOp' = [Op("styleImage") EXCEPT !.img = data,
                                              !.stale = r.stale]
  /\ nextStyled' = nextStyled + 1
  /\ styledSinceBase' = (styledSinceBase \/ ~r.stale)
  /\ styleReqs' = styleReqs (-) SetToBag({r})
  /\ UNCHANGED <<loads, videoJobs, costReqs>>

\* Variant of noImageResult that leaves the part's text on screen.
noImageResult_KeepsPartText(s, text) ==
  setLoading(showPartText(showText(s, NoImageText), text), FALSE)

\* handleStyleRoom after its await, for a response without an image part:
\* the loop over the parts, the !foundImage message and the finally block.
noImageResult(s, text) ==
  setLoading(showText(showPartText(s, text), NoImageText), FALSE)

\* The response to request r arrives with text parts only (none when text
\* is NULL).
StyleResponseNoImage(r, text) ==
  /\ BagIn(r, styleReqs)
  /\ Apply(noImageResult(St, text))
  /\ styleReqs' = styleReqs (-) SetToBag({r})
  /\ lastOp' = Op("styleNoImage")
  /\ UNCHANGED <<loads, videoJobs, nextStyled, styledSinceBase, costReqs>>

\* Variant of styleErrorResult that shows a fixed message.
styleErrorResult_FixedMessage(s, m) ==
  setLoading(showText(s, StyleErrorText("Unknown error")), FALSE)

\* handleStyleRoom after its await, when the call threw an error with
\* message m: the catch and finally blocks.
styleErrorResult(s, m) ==
  setLoading(showText(s, StyleErrorText(m)), FALSE)

\* The call for request r throws an error with message m (transport error,
\* service error, response without candidates).
StyleResponseError(r, m) ==
  /\ BagIn(r, styleReqs)
  /\ Apply(styleErrorResult(St, m))
  /\ styleReqs' = styleReqs (-) SetToBag({r})
  /\ lastOp' = [Op("styleError") EXCEPT !.err = m]
  /\ UNCHANGED <<loads, videoJobs, nextStyled, styledSinceBase, costReqs>>

\* Undo button click or Ctrl/Cmd+Z.
Undo ==
  /\ Apply(handleUndo(St))
  /\ lastOp' = Op("undo")
  /\ UNCHANGED <<styleReqs, loads, videoJobs, nextStyled, styledSinceBase,
               costReqs>>

\* Redo button click or Ctrl/Cmd+Y or Ctrl/Cmd+Shift+Z.
Redo ==
  /\ Apply(handleRedo(St))
  /\ lastOp' = Op("redo")
  /\ UNCHANGED <<styleReqs, loads, videoJobs, nextStyled, styledSinceBase,
               costReqs>>

asyncVars == <<styleReqs, loads, videoJobs, nextStyled, styledSinceBase,
               costReqs>>

\* Click on the image container: the placement position, as fractions of
\* the container's size in hundredths.
imageClick(s, e, rect) ==
  [s EXCEPT !.clickPosition =
     [x |-> ((e.clientX - rect.left) * 100) \div rect.width,
      y |-> ((e.clientY - rect.top) * 100) \div rect.height]]

ImageClick(e) ==
  /\ Apply(imageClick(St, e, ImageRect))
  /\ lastOp' = Op("imageClick")
  /\ UNCHANGED asyncVars

\* Zoom buttons (clickable only while enabled).
ZoomIn ==
  /\ ~zoomButtonsDisabled
  /\ Apply(handleZoomIn(St))
  /\ lastOp' = [Op("zoomIn") EXCEPT !.zoom = zoomLevel]
  /\ UNCHANGED asyncVars

ZoomOut ==
  /\ ~zoomButtonsDisabled
  /\ Apply(handleZoomOut(St))
  /\ lastOp' = [Op("zoomOut") EXCEPT
                  !.zoom = IF lastOp.op = "zoomIn" THEN lastOp.zoom ELSE 0]
  /\ UNCHANGED asyncVars

ZoomReset ==
  /\ ~zoomButtonsDisabled
  /\ Apply(handleZoomReset(St))
  /\ lastOp' = Op("zoomReset")
  /\ UNCHANGED asyncVars

\* mousedown on the image container.
MouseDown(e) ==
  /\ Apply(handleDragStart(St, e))
  /\ lastOp' = Op("dragStart")
  /\ UNCHANGED asyncVars

Abs(n) == IF n < 0 THEN -n ELSE n

\* mousemove: on the image container it runs handleDragMove and bubbles to
\* the document's listener; elsewhere only the document's listener runs.
MouseMove(e, onImage) ==
  /\ LET s == sliderMouseMove(IF onImage THEN handleDragMove(St, e) ELSE St,
                              e, SliderRect)
     IN /\ Abs(s.translateX) <= MaxPan * PointerStep
        /\ Abs(s.translateY) <= MaxPan * PointerStep
        /\ Apply(s)
  /\ lastOp' = Op("mouseMove")
  /\ UNCHANGED asyncVars

\* mouseup: on the image container it runs handleDragEnd and bubbles to the
\* document's listener; elsewhere only the document's listener runs.
MouseUp(onImage) ==
  /\ Apply(sliderMouseUp(IF onImage THEN handleDragEnd(St) ELSE St))
  /\ lastOp' = Op("mouseUp")
  /\ UNCHANGED asyncVars

\* mouseleave on the image container.
MouseLeave ==
  /\ Apply(handleDragEnd(St))
  /\ lastOp' = Op("mouseLeave")
  /\ UNCHANGED asyncVars

\* Comparison button (clickable only while enabled).
ToggleComparison ==
  /\ ~actionButtonsDisabled
  /\ Apply(toggleComparison(St))
  /\ lastOp' = Op("toggleComparison")
  /\ UNCHANGED asyncVars

\* mousedown on the comparison slider: the listener sets the flag whatever
\* the mode.
SliderMouseDown ==
  /\ Apply([St EXCEPT !.isSliderDragging = TRUE])
  /\ lastOp' = Op("sliderMouseDown")
  /\ UNCHANGED asyncVars

\* ------------------------------------------------------------------ video
\* handleGenerateVideo up to its first await.  A job is the image sent and
\* the await the call is suspended at: "generate" (generateVideos), "poll"
\* (the delay and getVideosOperation), "fetch" (fetch of the download link)
\* or "blob" (response.blob()).
\* Variant of videoSubmits without the check.
videoSubmits_Always(s) == TRUE

\* handleGenerateVideo goes on to call generateVideos.
videoSubmits(s) == s.lastStyled # NULL

\* The program state when handleGenerateVideo returns or suspends.
videoEntry(s) ==
  IF videoSubmits(s)
    THEN setMessageInterval(
           setLoading([s EXCEPT !.videoContainerHidden = TRUE], TRUE),
           "video")
    ELSE showText(s, StyleFirstText)

\* Click on the video button (clickable only while enabled).
VideoClick ==
  /\ ~videoButtonDisabled
  /\ Apply(videoEntry(St))
  /\ IF ~videoSubmits(St)
       THEN /\ lastOp' = Op("videoRejected")
            /\ UNCHANGED videoJobs
       ELSE /\ InFlight < MaxInFlight
            /\ videoJobs' = videoJobs (+)
                 SetToBag({[img |-> lastStyledImage, at |-> "generate"]})
            /\ lastOp' = [Op("videoSubmit") EXCEPT !.img = lastStyledImage]
  /\ UNCHANGED <<styleReqs, loads, nextStyled, styledSinceBase, costReqs>>

\* Variant of videoFailed that leaves the loading state on.
videoFailed_KeepsLoading(s, m) == showText(s, VideoFailedText(m))

\* The catch block of handleGenerateVideo.
videoFailed(s, m) == setLoading(showText(s, VideoFailedText(m)), FALSE)

NoVideoMessage ==
  "No video generated. Please try again or check your API quota."
DownloadFailedMessage(statusText) ==
  <<"Failed to download video: ", statusText>>

\* What a resolved operation and a resolved fetch reported, as recorded
\* in lastOp.
OperationReport(done, hasLink) ==
  <<IF done THEN "done" ELSE "pending", IF hasLink THEN "link" ELSE "no link">>
FetchReport(ok) == <<"fetch", IF ok THEN "ok" ELSE "not ok">>

\* Where handleGenerateVideo goes when an operation resolves: around the
\* polling loop again, on to the fetch of the download link, or to the
\* throw for a missing link.
videoStage(done, hasLink) ==
  IF ~done THEN "poll" ELSE IF hasLink THEN "fetch" ELSE "throw"

\* generateVideos or getVideosOperation resolves for job j: the operation
\* is done or not, and a done operation has a download link or not.
VideoOperation(j, done, hasLink) ==
  /\ BagIn(j, videoJobs)
  /\ j.at \in {"generate", "poll"}
  /\ LET stage == videoStage(done, hasLink)
     IN IF stage = "poll"
       THEN /\ videoJobs' = (videoJobs (-) SetToBag({j}))
                              (+) SetToBag({[j EXCEPT !.at = "poll"]})
            /\ lastOp' = [Op("videoPending") EXCEPT
                            !.value = OperationReport(done, hasLink)]
            /\ UNCHANGED progVars
       ELSE IF stage = "fetch"
         THEN /\ Apply(setLoading(St, TRUE))
              /\ videoJobs' = (videoJobs (-) SetToBag({j}))
                                (+) SetToBag({[j EXCEPT !.at = "fetch"]})
              /\ lastOp' = [Op("videoFinalizing") EXCEPT
                              !.value = OperationReport(done, hasLink)]
         ELSE /\ Apply(videoFailed(setLoading(St, TRUE), <<NoVideoMessage>>))
              /\ videoJobs' = videoJobs (-) SetToBag({j})
              /\ lastOp' = [Op("videoFailed") EXCEPT
                              !.value = OperationReport(done, hasLink)]
  /\ UNCHANGED <<styleReqs, loads, nextStyled, styledSinceBase, costReqs>>

\* The fetch of the download link resolves for job j, with response.ok or
\* without.
VideoFetch(j, ok) ==
  /\ BagIn(j, videoJobs)
  /\ j.at = "fetch"
  /\ IF ok
       THEN /\ videoJobs' = (videoJobs (-) SetToBag({j}))
                              (+) SetToBag({[j EXCEPT !.at = "blob"]})
            /\ lastOp' = [Op("videoFetched") EXCEPT !.value = FetchReport(ok)]
            /\ UNCHANGED progVars
       ELSE /\ Apply(videoFailed(St, DownloadFailedMessage("Forbidden")))
            /\ videoJobs' = videoJobs (-) SetToBag({j})
            /\ lastOp' = [Op("videoFailed") EXCEPT !.value = FetchReport(ok)]
  /\ UNCHANGED <<styleReqs, loads, nextStyled, styledSinceBase, costReqs>>

\* response.blob() resolves for job j: the video is shown.
VideoBlob(j) ==
  /\ BagIn(j, videoJobs)
  /\ j.at = "blob"
  /\ Apply(setLoading(
             showText([St EXCEPT !.videoContainerHidden = FALSE],
                      VideoReadyText), FALSE))
  /\ videoJobs' = videoJobs (-) SetToBag({j})
  /\ lastOp' = Op("videoReady")
  /\ UNCHANGED <<styleReqs, loads, nextStyled, styledSinceBase, costReqs>>

\* The await job j is suspended at rejects with message m.
VideoThrow(j, m) ==
  /\ BagIn(j, videoJobs)
  /\ Apply(videoFailed(St, <<m>>))
  /\ videoJobs' = videoJobs (-) SetToBag({j})
  /\ lastOp' = [Op("videoFailed") EXCEPT !.err = m]
  /\ UNCHANGED <<styleReqs, loads, nextStyled, styledSinceBase, costReqs>>

\* Click on the estimate-cost button (possible only while it is enabled):
\* without a styled image handleEstimateCost only shows a toast, else it
\* disables the button and awaits the model's answer.
EstimateCostClick ==
  /\ ~estimateCostDisabled
  /\ IF lastStyledImage = NULL
       THEN /\ UNCHANGED <<progVars, costReqs>>
            /\ lastOp' = Op("estimateCostRejected")
       ELSE /\ InFlight < MaxInFlight
            /\ Apply([St EXCEPT !.estimateCostDisabled = TRUE])
            /\ costReqs' = costReqs + 1
            /\ lastOp' = Op("estimateCost")
  /\ UNCHANGED <<styleReqs, loads, videoJobs, nextStyled, styledSinceBase>>

\* The answer to a cost estimate arrives, or the call fails: whatever the
\* outcome, the finally block enables the button again.
EstimateCostDone ==
  /\ costReqs > 0
  /\ Apply([St EXCEPT !.estimateCostDisabled = FALSE])
  /\ costReqs' = costReqs - 1
  /\ lastOp' = Op("estimateCostDone")
  /\ UNCHANGED <<styleReqs, loads, videoJobs, nextStyled, styledSinceBase>>

\* A running message timer fires.  The styling timer only changes the
\* overlay's message; the video timer calls setLoading(true, ...).
TimerTick(kind) ==
  /\ BagIn(kind, timers)
  /\ IF kind = "video" THEN Apply(setLoading(St, TRUE))
                       ELSE UNCHANGED progVars
  /\ lastOp' = [Op("timerTick") EXCEPT !.err = kind]
  /\ UNCHANGED asyncVars

\* ---------------------------------------------------------- specifications
\* Spec: the image handlers (sample pick, upload, style, undo, redo) in free
\* interleaving, up to MaxStyled styled results.
ledgerVars == <<ledgerEvents, pushRun>>

SampleClickAny ==
  /\ \E i \in SamplePicks : SampleClick(i)
  /\ UNCHANGED ledgerVars
UploadChangeAny ==
  /\ \E img \in BaseImages : UploadChange(img)
  /\ UNCHANGED ledgerVars
LoadDoneAny ==
  /\ \E l \in BagToSet(loads) : LoadDone(l)
  /\ UNCHANGED ledgerVars
LoadFailAny ==
  /\ \E l \in BagToSet(loads), m \in ErrorMessages : LoadFail(l, m)
  /\ UNCHANGED ledgerVars
StyleClickAny ==
  /\ \E v \in PromptValues : StyleClick(v)
  /\ UNCHANGED ledgerVars
StyleImageAny ==
  /\ \E r \in BagToSet(styleReqs), text \in PartTexts :
       StyleResponseImage(r, MaxStyled, text)
  /\ UNCHANGED ledgerVars
StyleNoImageAny ==
  /\ \E r \in BagToSet(styleReqs), text \in PartTexts :
       StyleResponseNoImage(r, text)
  /\ UNCHANGED ledgerVars
StyleErrorAny ==
  /\ \E r \in BagToSet(styleReqs), m \in ErrorMessages :
       StyleResponseError(r, m)
  /\ UNCHANGED ledgerVars
UndoAny == Undo /\ UNCHANGED ledgerVars
RedoAny == Redo /\ UNCHANGED ledgerVars
\* The style button clicked with an instruction in the prompt.
StyleSendAny == StyleClick(<<"add a sofa">>) /\ UNCHANGED ledgerVars
\* A response with an image part and no text part.
StyleImageOnly ==
  /\ \E r \in BagToSet(styleReqs) : StyleResponseImage(r, MaxStyled, NULL)
  /\ UNCHANGED ledgerVars

Next ==
  \/ SampleClickAny
  \/ UploadChangeAny
  \/ LoadDoneAny
  \/ LoadFailAny
  \/ StyleClickAny
  \/ StyleImageAny
  \/ StyleNoImageAny
  \/ StyleErrorAny
  \/ UndoAny
  \/ RedoAny

Spec == Init /\ [][Next]_vars

\* SpecLedger: long runs of the ledger, up to MaxPushes styled results (past
\* MAX_HISTORY), with at most MaxLedgerEvents undo, redo and sample-pick
\* events among them.
LedgerSampleClick ==
  /\ ledgerEvents < MaxLedgerEvents
  /\ \E i \in SamplePicks : SampleClick(i)
  /\ ledgerEvents' = ledgerEvents + 1
  /\ UNCHANGED pushRun
LedgerStyleImage ==
  /\ \E r \in BagToSet(styleReqs) : StyleResponseImage(r, MaxPushes, NULL)
  /\ pushRun' = pushRun + 1
  /\ UNCHANGED ledgerEvents
LedgerUndo ==
  /\ ledgerEvents < MaxLedgerEvents
  /\ Undo
  /\ ledgerEvents' = ledgerEvents + 1
  /\ pushRun' = 0
LedgerRedo ==
  /\ ledgerEvents < MaxLedgerEvents
  /\ Redo
  /\ ledgerEvents' = ledgerEvents + 1
  /\ pushRun' = 0

NextLedger ==
  \/ LoadDoneAny
  \/ StyleSendAny
  \/ LedgerSampleClick
  \/ LedgerStyleImage
  \/ LedgerUndo
  \/ LedgerRedo

SpecLedger == Init /\ [][NextLedger]_vars

\* SpecRequest: how a styling request is built and answered: placement
\* clicks, the style button and every kind of response.
ImageClickAny ==
  /\ \E e \in ClickEvents : ImageClick(e)
  /\ UNCHANGED ledgerVars

\* The style button clicked with any of the entered values.
StyleClickText ==
  /\ \E v \in RequestPrompts : StyleClick(v)
  /\ UNCHANGED ledgerVars

NextRequest ==
  \/ LoadDoneAny
  \/ LoadFailAny
  \/ ImageClickAny
  \/ StyleClickText
  \/ UndoAny
  \/ RedoAny
  \/ StyleImageAny
  \/ StyleNoImageAny
  \/ StyleErrorAny

SpecRequest == Init /\ [][NextRequest]_vars

\* SpecVideo: video generation next to styling and base-image loads.
VideoClickAny == VideoClick /\ UNCHANGED ledgerVars
VideoOperationAny ==
  /\ \E j \in BagToSet(videoJobs), done \in BOOLEAN, hasLink \in BOOLEAN :
       VideoOperation(j, done, hasLink)
  /\ UNCHANGED ledgerVars
VideoFetchAny ==
  /\ \E j \in BagToSet(videoJobs), ok \in BOOLEAN : VideoFetch(j, ok)
  /\ UNCHANGED ledgerVars
VideoBlobAny ==
  /\ \E j \in BagToSet(videoJobs) : VideoBlob(j)
  /\ UNCHANGED ledgerVars
VideoThrowAny ==
  /\ \E j \in BagToSet(videoJobs), m \in ErrorMessages : VideoThrow(j, m)
  /\ UNCHANGED ledgerVars
TimerTickAny ==
  /\ \E kind \in BagToSet(timers) : TimerTick(kind)
  /\ UNCHANGED ledgerVars

NextVideo ==
  \/ SampleClickAny
  \/ LoadDoneAny
  \/ LoadFailAny
  \/ StyleSendAny
  \/ StyleImageOnly
  \/ VideoClickAny
  \/ VideoOperationAny
  \/ VideoFetchAny
  \/ VideoBlobAny
  \/ VideoThrowAny
  \/ TimerTickAny

SpecVideo == Init /\ [][NextVideo]_vars

\* SpecView: the view handlers (zoom, pan, comparison, slider) next to
\* styling, undo, redo and video generation on the first room photo.  View
\* events are counted against the budget MaxViewEvents.
Budgeted(A) ==
  /\ ledgerEvents < MaxViewEvents
  /\ A
  /\ ledgerEvents' = ledgerEvents + 1
  /\ UNCHANGED pushRun

ViewZoomIn == Budgeted(ZoomIn)
ViewZoomOut == Budgeted(ZoomOut)
ViewZoomReset == Budgeted(ZoomReset)
ViewMouseDown == Budgeted(\E e \in MouseEvents : MouseDown(e))
ViewMouseMove ==
  Budgeted(\E e \in MouseEvents, onImage \in BOOLEAN : MouseMove(e, onImage))
ViewMouseUp == Budgeted(\E onImage \in BOOLEAN : MouseUp(onImage))
ViewMouseLeave == Budgeted(MouseLeave)
ViewToggleComparison == Budgeted(ToggleComparison)
ViewSliderMouseDown == Budgeted(SliderMouseDown)

NextView ==
  \/ LoadDoneAny
  \/ StyleSendAny
  \/ StyleImageOnly
  \/ StyleErrorAny
  \/ UndoAny
  \/ RedoAny
  \/ VideoClickAny
  \/ VideoOperationAny
  \/ VideoFetchAny
  \/ VideoBlobAny
  \/ VideoThrowAny
  \/ ViewZoomIn
  \/ ViewZoomOut
  \/ ViewZoomReset
  \/ ViewMouseDown
  \/ ViewMouseMove
  \/ ViewMouseUp
  \/ ViewMouseLeave
  \/ ViewToggleComparison
  \/ ViewSliderMouseDown

SpecView == Init /\ [][NextView]_vars

\* The first gallery item is clicked (again).
SampleAgain == SampleClick(1) /\ UNCHANGED ledgerVars

\* SpecControls: the controls that depend on a styled image, with cost
\* estimates next to base-image loads and styling.
EstimateCostClickAny == EstimateCostClick /\ UNCHANGED ledgerVars
EstimateCostDoneAny == EstimateCostDone /\ UNCHANGED ledgerVars

NextControls ==
  \/ SampleClickAny
  \/ LoadDoneAny
  \/ LoadFailAny
  \/ StyleSendAny
  \/ StyleImageOnly
  \/ StyleErrorAny
  \/ UndoAny
  \/ EstimateCostClickAny
  \/ EstimateCostDoneAny

SpecControls == Init /\ [][NextControls]_vars

\* SpecLive: styling and video requests run to their end.  The user sends
\* a styling request only while none is awaited and starts a video run
\* only while none is suspended, so the completion that follows a start is
\* that request's; picks of the first sample, their loads, timers and the
\* other kind of request interleave freely.  Every awaited remote call eventually resolves or rejects, and
\* a video operation is eventually reported done.
LiveStyleSend ==
  /\ BagCardinality(styleReqs) = 0
  /\ StyleSendAny
LiveVideoClick ==
  /\ BagCardinality(videoJobs) = 0
  /\ VideoClickAny
\* The soft and the hard failure of a styling request and a rejected
\* video call, each with one text or message.
LiveStyleNoImage ==
  /\ \E r \in BagToSet(styleReqs) : StyleResponseNoImage(r, NULL)
  /\ UNCHANGED ledgerVars
LiveStyleError ==
  /\ \E r \in BagToSet(styleReqs) : StyleResponseError(r, "Quota exceeded")
  /\ UNCHANGED ledgerVars
LiveVideoThrow ==
  /\ \E j \in BagToSet(videoJobs) : VideoThrow(j, "Failed to fetch")
  /\ UNCHANGED ledgerVars
\* A video operation resolves done.
LiveVideoDone ==
  /\ \E j \in BagToSet(videoJobs), hasLink \in BOOLEAN :
       VideoOperation(j, TRUE, hasLink)
  /\ UNCHANGED ledgerVars
\* A video operation resolves not done.
LiveVideoPending ==
  /\ \E j \in BagToSet(videoJobs) : VideoOperation(j, FALSE, FALSE)
  /\ UNCHANGED ledgerVars

NextLive ==
  \/ SampleAgain
  \/ LoadDoneAny
  \/ LiveStyleSend
  \/ StyleImageOnly
  \/ LiveStyleNoImage
  \/ LiveStyleError
  \/ LiveVideoClick
  \/ LiveVideoPending
  \/ LiveVideoDone
  \/ VideoFetchAny
  \/ VideoBlobAny
  \/ LiveVideoThrow
  \/ TimerTickAny

\* A styling call resolves or rejects; a video operation is reported done
\* or its call rejects; the download resolves or rejects.
StyleAnswered == StyleImageOnly \/ LiveStyleNoImage \/ LiveStyleError
VideoOperationEnds ==
  LiveVideoDone
    \/ (LiveVideoThrow /\ \E j \in BagToSet(videoJobs) :
                            j.at \in {"generate", "poll"})
VideoDownloadEnds == VideoFetchAny \/ VideoBlobAny

SpecLive ==
  /\ Init
  /\ [][NextLive]_vars
  /\ WF_vars(StyleAnswered)
  /\ WF_vars(VideoOperationEnds)
  /\ WF_vars(VideoDownloadEnds)

\* SpecCompare: the comparison view (toggle, slider drag) next to picks of
\* the first sample, styling, undo and redo.
CompareToggle == ToggleComparison /\ UNCHANGED ledgerVars
CompareSliderDown == SliderMouseDown /\ UNCHANGED ledgerVars
CompareMouseMove ==
  /\ \E e \in SliderEvents : MouseMove(e, FALSE)
  /\ UNCHANGED ledgerVars
CompareMouseUp == MouseUp(FALSE) /\ UNCHANGED ledgerVars

NextCompare ==
  \/ SampleAgain
  \/ LoadDoneAny
  \/ StyleSendAny
  \/ StyleImageOnly
  \/ UndoAny
  \/ RedoAny
  \/ CompareToggle
  \/ CompareSliderDown
  \/ CompareMouseMove
  \/ CompareMouseUp

SpecCompare == Init /\ [][NextCompare]_vars

\* SpecMarkup: the comparison toggle next to sample picks, loads that
\* complete or fail, styling, undo and redo, from a page whose markup
\* starts the action buttons disabled.  The
\* markup (index.html) is not part of src/; the specification has the
\* comparison and cost-estimation controls enabled by the first styled
\* result, so they are taken to start disabled.
InitMarkup ==
  /\ Init
  /\ actionButtonsDisabled
  /\ estimateCostDisabled

NextMarkup ==
  \/ SampleAgain
  \/ LoadDoneAny
  \/ LoadFailAny
  \/ StyleSendAny
  \/ StyleImageOnly
  \/ UndoAny
  \/ RedoAny
  \/ CompareToggle

SpecMarkup == InitMarkup /\ [][NextMarkup]_vars

\* SpecZoom: zoom and pan over the whole zoom range, next to picks of the
\* first sample.  The pointer moves along the container's diagonal.
ZoomInAny == ZoomIn /\ UNCHANGED ledgerVars
ZoomOutAny == ZoomOut /\ UNCHANGED ledgerVars
ZoomResetAny == ZoomReset /\ UNCHANGED ledgerVars
MouseDownAny ==
  /\ \E e \in DiagonalEvents : MouseDown(e)
  /\ UNCHANGED ledgerVars
MouseMoveAny ==
  /\ \E e \in DiagonalEvents : MouseMove(e, TRUE)
  /\ UNCHANGED ledgerVars
MouseUpAny == MouseUp(TRUE) /\ UNCHANGED ledgerVars
MouseLeaveAny == MouseLeave /\ UNCHANGED ledgerVars

NextZoom ==
  \/ SampleAgain
  \/ LoadDoneAny
  \/ ZoomInAny
  \/ ZoomOutAny
  \/ ZoomResetAny
  \/ MouseDownAny
  \/ MouseMoveAny
  \/ MouseUpAny
  \/ MouseLeaveAny

SpecZoom == Init /\ [][NextZoom]_vars

\* ------------------------------------------------------------------ claims
slots == <<originalImage, currentImage, lastStyledImage, history, historyIndex>>

\* C1: in every reachable state the history ledger holds at most
\* MAX_HISTORY (20) snapshots.
LedgerWithinCapacity == Len(history) <= MAX_HISTORY

\* A full ledger from which the oldest snapshot has been evicted.
LedgerWithinCapacity_Witness ==
  /\ Len(history) = MAX_HISTORY
  /\ nextStyled > MAX_HISTORY

\* C2: in every reachable state the cursor is -1 when the ledger is empty and
\* otherwise an index of the ledger, 0 <= cursor <= length - 1.
CursorValid ==
  IF Len(history) = 0
    THEN historyIndex = -1
    ELSE 0 <= historyIndex /\ historyIndex <= Len(history) - 1

\* A full ledger after an eviction, with the cursor moved off the last entry.
CursorValid_Witness ==
  /\ Len(history) = MAX_HISTORY
  /\ nextStyled > MAX_HISTORY
  /\ historyIndex < Len(history) - 1

\* C3: a push while the ledger is below capacity and the cursor is at c
\* discards the entries after c, keeps entries 0..c in order, appends the new
\* snapshot and leaves the cursor on the new last index (no redo); the ledger
\* then holds c+1 old entries plus the new one.
PushBelowCapacity ==
  [][(lastOp'.op = "styleImage" /\ Len(history) < MAX_HISTORY) =>
       /\ history' = SubSeq(history, 1, historyIndex + 1) \o <<lastOp'.img>>
       /\ Len(history') = (historyIndex + 1) + 1
       /\ historyIndex' = Len(history') - 1
       /\ ~canRedo(St')]_vars

\* A push that followed two undos: the last entry is the new snapshot and the
\* two snapshots that were after the cursor are gone.
PushBelowCapacity_Witness ==
  /\ lastOp.op = "styleImage"
  /\ Len(history) >= 2
  /\ historyIndex = Len(history) - 1
  /\ history[Len(history)] = Styled(nextStyled)
  /\ history[Len(history) - 1] = Styled(nextStyled - 3)

\* C4: a push onto a full ledger with the cursor on the last index evicts
\* exactly the oldest entry, keeps the other 19 in order, appends the new
\* snapshot and leaves the cursor on it (index 19); after more than 20
\* consecutive pushes the ledger is the last 20 pushed snapshots in order.
PushAtCapacity ==
  /\ [][(/\ lastOp'.op = "styleImage"
         /\ Len(history) = MAX_HISTORY
         /\ historyIndex = MAX_HISTORY - 1) =>
          /\ history' = Tail(history) \o <<lastOp'.img>>
          /\ historyIndex' = MAX_HISTORY - 1
          /\ history'[historyIndex' + 1] = lastOp'.img]_vars
  /\ [](pushRun > MAX_HISTORY =>
          history = [i \in 1..MAX_HISTORY |->
                       Styled(nextStyled - MAX_HISTORY + i)])

\* More than 20 pushes in a row have just been made.
PushAtCapacity_Witness ==
  /\ lastOp.op = "styleImage"
  /\ pushRun > MAX_HISTORY
  /\ historyIndex = MAX_HISTORY - 1

\* C5: from any reachable state in which undo is possible (cursor > 0), undo
\* followed immediately by redo restores the cursor, the current image and the
\* last-styled image and leaves the ledger unchanged.
UndoRedoRoundTrip ==
  canUndo(St) =>
    LET back == handleRedo(handleUndo(St))
    IN /\ back.historyIndex = historyIndex
       /\ back.current = currentImage
       /\ back.lastStyled = lastStyledImage
       /\ back.history = history

\* C6: undo at cursor <= 0 and redo at cursor >= length - 1 change none of
\* cursor, ledger, original, current, lastStyled; otherwise undo moves the
\* cursor down by exactly 1, redo up by exactly 1, and the snapshot at the new
\* cursor becomes current.
UndoRedoSteps ==
  [][/\ lastOp'.op = "undo" =>
          IF historyIndex <= 0
            THEN UNCHANGED slots
            ELSE /\ historyIndex' = historyIndex - 1
                 /\ currentImage' = history[historyIndex' + 1]
                 /\ UNCHANGED <<history, originalImage>>
     /\ lastOp'.op = "redo" =>
          IF historyIndex >= Len(history) - 1
            THEN UNCHANGED slots
            ELSE /\ historyIndex' = historyIndex + 1
                 /\ currentImage' = history[historyIndex' + 1]
                 /\ UNCHANGED <<history, originalImage>>]_vars

\* An undo that moved the cursor, with a redo available.
UndoRedoSteps_Witness ==
  /\ lastOp.op = "undo"
  /\ historyIndex > 0
  /\ canRedo(St)
  /\ currentImage = history[historyIndex + 1]

\* C7: immediately after a new base image is set the ledger is empty, the
\* cursor is -1, and neither undo nor redo is available.
NewBaseClearsLedger ==
  lastOp.op = "setNewBaseImage" =>
    /\ history = <<>>
    /\ historyIndex = -1
    /\ ~canUndo(St)
    /\ ~canRedo(St)

\* C8: immediately after img is set as the new base image, original = img,
\* current = img and lastStyled is null.
NewBaseSetsSlots ==
  lastOp.op = "setNewBaseImage" =>
    /\ originalImage = lastOp.img
    /\ currentImage = lastOp.img
    /\ lastStyledImage = NULL

\* A new base image set over a styled room, replacing another base image.
NewBaseSetsSlots_Witness ==
  /\ lastOp.op = "setNewBaseImage"
  /\ lastOp.img = Base(2)
  /\ nextStyled > 0
  /\ lastStyledImage = NULL

\* C9: lastStyled is null unless a styling request issued after the most
\* recent new-base-image event has completed with an image.
LastStyledNeedsSuccess == lastStyledImage # NULL => styledSinceBase

\* C10: the response to a request that was in flight when a new base image
\* was set changes none of original, current, lastStyled and the ledger.
StaleResponseDiscarded ==
  [][(lastOp'.op = "styleImage" /\ lastOp'.stale) => UNCHANGED slots]_vars

\* C11: in no reachable state are two styling requests in flight at the
\* same time, and in no reachable state are two video-generation jobs in
\* flight at the same time.
OneRequestAtATime ==
  /\ BagCardinality(styleReqs) <= 1
  /\ BagCardinality(videoJobs) <= 1

\* C12: every completion of a styling request either leaves current,
\* lastStyled, the ledger and the cursor all unchanged, or sets current and
\* lastStyled to the returned image and pushes that same image onto the
\* ledger with the cursor on it.
StyleCompletionAllOrNothing ==
  [][lastOp'.op \in {"styleImage", "styleNoImage", "styleError"} =>
       \/ UNCHANGED <<currentImage, lastStyledImage, history, historyIndex>>
       \/ /\ lastOp'.op = "styleImage"
          /\ currentImage' = lastOp'.img
          /\ lastStyledImage' = lastOp'.img
          /\ Len(history') > 0
          /\ history'[Len(history')] = lastOp'.img
          /\ historyIndex' = Len(history') - 1]_vars
StyleCompletionAllOrNothing_Witness ==
  /\ lastOp.op = "styleImage"
  /\ Len(history) = 2
  /\ historyIndex = 1
  /\ history[2] = lastOp.img
  /\ currentImage = lastOp.img
  /\ lastStyledImage = lastOp.img

\* C13: when a styling response has text parts and no image part, original,
\* current, lastStyled, the ledger and the cursor are unchanged, the message
\* that the model did not return an image is shown and loading is cleared.
TextOnlyResponse ==
  [][lastOp'.op = "styleNoImage" =>
       /\ UNCHANGED slots
       /\ responseText' = NoImageText
       /\ ~loading']_vars
TextOnlyResponse_Witness ==
  /\ lastOp.op = "styleNoImage"
  /\ responseText = NoImageText
  /\ lastStyledImage # NULL
  /\ ~loading

\* C14: when the styling call fails with an error, original, current,
\* lastStyled, the ledger and the cursor are unchanged and an error message
\* carrying the error's own message is shown.
StyleErrorShown ==
  [][lastOp'.op = "styleError" =>
       /\ UNCHANGED slots
       /\ responseText' = <<"An error occurred: ", lastOp'.err>>]_vars
StyleErrorShown_Witness ==
  /\ lastOp.op = "styleError"
  /\ lastOp.err = "Quota exceeded"
  /\ responseText = <<"An error occurred: ", "Quota exceeded">>
  /\ lastStyledImage # NULL

\* C15: a style action with no base image, or with an instruction that is
\* empty after trimming, sends no request, shows an inline message and
\* leaves the image slots, the ledger, the placement hint and the loading
\* state unchanged; a request is sent only with a base image.
StyleRejectedFrame ==
  [][/\ lastOp'.op = "styleRejected" =>
          /\ UNCHANGED <<slots, clickPosition, loading, styleReqs>>
          /\ responseText' = IF currentImage = NULL THEN ChooseImageText
                                                     ELSE DescribeText
     /\ lastOp'.op = "styleDispatch" => currentImage # NULL]_vars
StyleRejectedFrame_Witness ==
  /\ lastOp.op = "styleRejected"
  /\ clickPosition # NULL
  /\ lastStyledImage # NULL
  /\ responseText = DescribeText

\* C16: a video-generation action invoked while lastStyled is null submits
\* no job, shows an inline message and changes nothing else; every video
\* job was submitted with a non-null lastStyled image as its input.
VideoNeedsStyled ==
  /\ lastStyledImage = NULL =>
       /\ ~videoSubmits(St)
       /\ videoEntry(St) = [St EXCEPT !.responseText = StyleFirstText]
  /\ \A j \in BagToSet(videoJobs) : j.img # NULL
VideoNeedsStyled_Witness ==
  /\ lastStyledImage = NULL
  /\ currentImage # NULL
  /\ \E j \in BagToSet(videoJobs) : j.img = Styled(1)

\* C17: original is set if and only if current is set.
OriginalIffCurrent == (originalImage = NULL) <=> (currentImage = NULL)
OriginalIffCurrent_Witness ==
  /\ originalImage = Base(2)
  /\ currentImage = Styled(2)

\* C18: the original slot changes only in a new-base-image event: styling
\* (successful or failed), undo, redo, video generation, zoom, pan, the
\* comparison toggle and slider movement leave it unchanged.
OriginalFrame ==
  [][originalImage' # originalImage => lastOp'.op = "setNewBaseImage"]_vars
OriginalFrame_Witness ==
  /\ originalImage = Base(1)
  /\ lastStyledImage # NULL
  /\ isComparisonMode
  /\ lastOp.op = "mouseMove"
  /\ sliderPosition # 50

\* C19: every successful undo or redo sets both current and lastStyled to
\* the snapshot at the new cursor position.
UndoRedoSetsBoth ==
  [][(lastOp'.op \in {"undo", "redo"} /\ historyIndex' # historyIndex) =>
       /\ currentImage' = history'[historyIndex' + 1]
       /\ lastStyledImage' = history'[historyIndex' + 1]]_vars
UndoRedoSetsBoth_Witness ==
  /\ lastOp.op = "redo"
  /\ historyIndex = 1
  /\ lastStyledImage = history[2]
  /\ currentImage = history[2]

\* C20 as stated: after two successful stylings producing B then C, an undo
\* that moves current to B leaves lastStyled equal to C.
UndoKeepsLastStyled ==
  [][(/\ lastOp'.op = "undo"
      /\ historyIndex' = historyIndex - 1
      /\ lastStyledImage = Styled(nextStyled)) =>
       lastStyledImage' = Styled(nextStyled)]_vars
\* C20 amended: lastStyled follows the undo position: after two successful
\* stylings producing B then C, an undo that moves current to B sets
\* lastStyled to B as well, and C stays in the ledger for redo.
UndoMovesLastStyled ==
  [][(/\ lastOp'.op = "undo"
      /\ historyIndex' = historyIndex - 1
      /\ lastStyledImage = Styled(nextStyled)) =>
       /\ lastStyledImage' = history[historyIndex]
       /\ lastStyledImage' = currentImage'
       /\ lastStyledImage' # Styled(nextStyled)
       /\ history'[historyIndex' + 2] = Styled(nextStyled)]_vars
UndoMovesLastStyled_Witness ==
  /\ lastOp.op = "undo"
  /\ history = <<Styled(1), Styled(2)>>
  /\ historyIndex = 0
  /\ currentImage = Styled(1)
  /\ lastStyledImage = Styled(1)

\* C21: whenever comparison mode is on, the "before" image on screen is the
\* original image, whatever stylings, undos and redos ran before the
\* toggle or run while the mode is on (they move current, not original).
BeforeIsOriginal == isComparisonMode => beforeImage = originalImage

\* Comparison mode was entered after two stylings and an undo has just
\* moved current to the first result: "before" is still the room photo.
BeforeIsOriginal_Witness ==
  /\ isComparisonMode
  /\ lastOp.op = "undo"
  /\ currentImage = Styled(1)
  /\ originalImage = Base(1)
  /\ beforeImage = Base(1)
  /\ afterImage = Styled(2)

\* The state after base image A and one successful styling producing B:
\* the ledger holds B alone, current and lastStyled are B.
FirstStyling ==
  /\ originalImage # NULL
  /\ currentImage # originalImage
  /\ lastStyledImage = currentImage
  /\ history = <<currentImage>>
  /\ historyIndex = 0

\* C22 as stated: from base image A and one successful styling producing B,
\* an undo makes current equal A; toggling comparison on then shows
\* before = A and after = lastStyled.
UndoReturnsToBase ==
  [][/\ (lastOp'.op = "undo" /\ FirstStyling) =>
          currentImage' = originalImage
     /\ (lastOp'.op = "toggleComparison" /\ isComparisonMode') =>
          (beforeImage' = originalImage /\ afterImage' = lastStyledImage)
    ]_vars

\* C22 amended: from base image A and one successful styling producing B,
\* an undo changes nothing (the cursor is on the only entry), so current
\* stays B; toggling comparison on then shows before = A and
\* after = lastStyled = B.
UndoAtFirstStyling ==
  [][/\ (lastOp'.op = "undo" /\ FirstStyling) =>
          UNCHANGED <<slots, isComparisonMode, beforeImage, afterImage>>
     /\ (lastOp'.op = "toggleComparison" /\ FirstStyling
           /\ ~isComparisonMode) =>
          /\ isComparisonMode'
          /\ beforeImage' = originalImage
          /\ afterImage' = lastStyledImage
          /\ UNCHANGED slots
    ]_vars

\* Base image, one styling, comparison switched on.  An undo before the
\* toggle leaves the program state as it was, so this is the state the
\* scenario ends in.
UndoAtFirstStyling_Witness ==
  /\ lastOp.op = "toggleComparison"
  /\ FirstStyling
  /\ isComparisonMode
  /\ beforeImage = Base(1)
  /\ afterImage = Styled(1)
  /\ currentImage = Styled(1)

\* C23: comparison mode is entered only while lastStyled is set: the
\* toggle button is disabled while lastStyled is null, so no toggle runs
\* then, and in every reachable state comparison mode being on implies
\* that lastStyled is set.
ComparisonNeedsStyled ==
  /\ [](isComparisonMode => lastStyledImage # NULL)
  /\ [](lastStyledImage = NULL => actionButtonsDisabled)
  /\ [][lastOp'.op = "toggleComparison" =>
          /\ lastStyledImage # NULL
          /\ lastStyledImage' = lastStyledImage]_vars

\* Comparison mode has just been entered by the toggle after two stylings
\* and an undo, with lastStyled set to the snapshot the undo restored.
ComparisonNeedsStyled_Witness ==
  /\ lastOp.op = "toggleComparison"
  /\ isComparisonMode
  /\ Len(history) = 2
  /\ historyIndex = 0
  /\ lastStyledImage = Styled(1)
  /\ afterImage = Styled(1)

\* C24: immediately after a new base image is set, comparison mode is off,
\* whatever the state before.
NewBaseLeavesComparison ==
  [][lastOp'.op = "setNewBaseImage" => ~isComparisonMode']_vars

\* A new base image was set while the comparison of the room photo with a
\* styled result was on screen.
NewBaseLeavesComparison_Witness ==
  /\ lastOp.op = "setNewBaseImage"
  /\ lastOp.cmp
  /\ beforeImage = Base(1)
  /\ afterImage = Styled(1)
  /\ ~isComparisonMode

\* C25 as stated: immediately after a new base image is set the view is
\* back at its defaults: zoom 1.0, pan offset (0,0), slider at 50.
NewBaseResetsView ==
  [][lastOp'.op = "setNewBaseImage" =>
       /\ zoomLevel' = ZOOM_ONE
       /\ translateX' = 0
       /\ translateY' = 0
       /\ sliderPosition' = 50]_vars

\* The zoom levels 1.0, 1.25, ..., 3.0, in hundredths.
ZoomGrid == {ZOOM_ONE + ZOOM_STEP * k : k \in 0..8}

\* C26: the zoom level is always one of 1.0 + 0.25*k, k in 0..8 (so within
\* [1.0, 3.0]); zoomIn adds 0.25 unless the level is 3.0, zoomOut
\* subtracts 0.25 unless the level is 1.0, resetZoom sets 1.0.
ZoomOnGrid ==
  /\ zoomLevel \in ZoomGrid
  /\ [][/\ zoomLevel' \in ZoomGrid
        /\ lastOp'.op = "zoomIn" =>
             zoomLevel' = IF zoomLevel = 300 THEN 300 ELSE zoomLevel + 25
        /\ lastOp'.op = "zoomOut" =>
             zoomLevel' = IF zoomLevel = 100 THEN 100 ELSE zoomLevel - 25
        /\ lastOp'.op = "zoomReset" => zoomLevel' = 100
       ]_vars

\* zoomIn was clicked at the highest level and left it there.
ZoomOnGrid_Witness ==
  /\ lastOp.op = "zoomIn"
  /\ lastOp.zoom = 300
  /\ zoomLevel = 300

\* C27 as stated: from every reachable zoom level, zoomIn directly followed
\* by zoomOut gives back the level before the zoomIn, and whenever the
\* result is 1.0 the pan offset is (0,0).
ZoomInOutRoundTrip ==
  [][(lastOp'.op = "zoomOut" /\ lastOp'.zoom # 0) =>
       /\ zoomLevel' = lastOp'.zoom
       /\ zoomLevel' = 100 => (translateX' = 0 /\ translateY' = 0)]_vars

\* C27 amended: from every reachable zoom level below 3.0, zoomIn directly
\* followed by zoomOut gives back the level before the zoomIn; from 3.0
\* the zoomIn changes nothing and the zoomOut ends at 2.75; whenever the
\* result is 1.0 the pan offset is (0,0).
ZoomInOutBelowMax ==
  [][(lastOp'.op = "zoomOut" /\ lastOp'.zoom # 0) =>
       /\ zoomLevel' = IF lastOp'.zoom = 300 THEN 275 ELSE lastOp'.zoom
       /\ zoomLevel' = 100 => (translateX' = 0 /\ translateY' = 0)]_vars

\* zoomIn from 1.0 and the zoomOut right after it: back at 1.0, not panned.
ZoomInOutBelowMax_Witness ==
  /\ lastOp.op = "zoomOut"
  /\ lastOp.zoom = 100
  /\ zoomLevel = 100
  /\ translateX = 0
  /\ translateY = 0

\* C28: at zoom level 1.0 the pan offset is (0,0), and the drag events
\* (mousedown, mousemove, mouseup, mouseleave) change the pan offset only
\* while the zoom level is above 1.0, also when the level came back to 1.0
\* (zoomOut, resetZoom) in the middle of a drag.
PanNeedsZoom ==
  /\ zoomLevel = 100 => (translateX = 0 /\ translateY = 0)
  /\ [][/\ zoomLevel' = 100 => (translateX' = 0 /\ translateY' = 0)
        /\ (/\ lastOp'.op \in {"dragStart", "mouseMove", "mouseUp",
                                "mouseLeave"}
            /\ <<translateX', translateY'>> # <<translateX, translateY>>)
             => (zoomLevel > 100 /\ isDragging)
       ]_vars

\* A drag was started while zoomed in, the level went back to 1.0 with the
\* button still held, and the pointer has just moved: no pan.
PanNeedsZoom_Witness ==
  /\ lastOp.op = "mouseMove"
  /\ isDragging
  /\ dragStartX # 0
  /\ zoomLevel = 100
  /\ translateX = 0
  /\ translateY = 0

\* C29: the slider position is always within [0,100], wherever the pointer
\* is dragged to, and it changes only while comparison mode is on.
SliderInRange ==
  /\ sliderPosition \in 0..100
  /\ [][/\ sliderPosition' \in 0..100
        /\ sliderPosition' # sliderPosition =>
             (isComparisonMode /\ isComparisonMode' /\ isSliderDragging)
       ]_vars

\* The slider was dragged to a pointer position right of the before/after
\* container and stopped at 100.
SliderInRange_Witness ==
  /\ lastOp.op = "mouseMove"
  /\ isComparisonMode
  /\ isSliderDragging
  /\ sliderPosition = 100

\* The nine phrases by band: row 1 top, 2 middle, 3 bottom; column 1 left,
\* 2 middle, 3 right.  Band 1 is below 0.33, band 3 above 0.66 and a value
\* on a threshold is in band 2.
PlacementGrid ==
  << << <<"in the ", "top", " ", "left", " corner">>,
        <<"at the ", "top">>,
        <<"in the ", "top", " ", "right", " corner">> >>,
     << <<"on the ", "left", " side">>,
        <<"in the center">>,
        <<"on the ", "right", " side">> >>,
     << <<"in the ", "bottom", " ", "left", " corner">>,
        <<"at the ", "bottom">>,
        <<"in the ", "bottom", " ", "right", " corner">> >> >>
Band(v) == IF v < 33 THEN 1 ELSE IF v > 66 THEN 3 ELSE 2

\* C30: the placement phrase of a click at (x,y) is the one of the nine
\* phrases that the 3x3 grid with thresholds 0.33 and 0.66 gives, with a
\* value on a threshold counted as middle; (0.1,0.1) is "in the top left
\* corner", (0.5,0.1) "at the top", (0.5,0.5) "in the center" and
\* (0.9,0.5) "on the right side".  Stated on the request the style button
\* sends after a placement click.
PlacementOnGrid ==
  /\ getPlacementDescription(10, 10)
       = <<"in the ", "top", " ", "left", " corner">>
  /\ getPlacementDescription(50, 10) = <<"at the ", "top">>
  /\ getPlacementDescription(50, 50) = <<"in the center">>
  /\ getPlacementDescription(90, 50) = <<"on the ", "right", " side">>
  /\ [][(lastOp'.op = "styleDispatch" /\ clickPosition # NULL) =>
         \E r \in BagToSet(styleReqs') :
           /\ CopiesIn(r, styleReqs') > CopiesIn(r, styleReqs)
           /\ r.hint
                = PlacementGrid[Band(clickPosition.y)][Band(clickPosition.x)]
       ]_vars

\* A request was just sent after a click in the right third of the image
\* at middle height.
PlacementOnGrid_Witness ==
  /\ lastOp.op = "styleDispatch"
  /\ \E r \in BagToSet(styleReqs) :
       r.hint = <<"on the ", "right", " side">>

\* C35: whenever lastStyled is set, the ledger is not empty and lastStyled,
\* current and the ledger entry at the cursor are the same image.
LastStyledAtCursor ==
  lastStyledImage # NULL =>
    /\ Len(history) > 0
    /\ historyIndex \in 0..(Len(history) - 1)
    /\ lastStyledImage = history[historyIndex + 1]
    /\ currentImage = lastStyledImage

\* After two stylings and an undo all three are the first styled result.
LastStyledAtCursor_Witness ==
  /\ lastOp.op = "undo"
  /\ Len(history) = 2
  /\ historyIndex = 0
  /\ lastStyledImage = Styled(1)
  /\ currentImage = Styled(1)

\* C36 as stated: the snapshot a styling result pushes onto the ledger
\* lands right after the image its request sent, or first in the ledger
\* when the request sent the base image, also when undo or redo moved the
\* cursor while the request was in flight.
PushedAfterSent ==
  [][lastOp'.op = "styleImage" =>
       \E r \in BagToSet(styleReqs) :
         /\ CopiesIn(r, styleReqs') < CopiesIn(r, styleReqs)
         /\ LET p == historyIndex' + 1
            IN IF r.img \in BaseImages
                 THEN p = 1
                 ELSE p > 1 /\ history'[p - 1] = r.img]_vars

\* C37 as stated: whenever comparison mode is on, the "after" image on
\* screen is lastStyled, also after a styling result, an undo or a redo
\* that happens while the mode stays on.
AfterIsLastStyled == isComparisonMode => afterImage = lastStyledImage

\* C38 as stated: while a styling or video request is in flight the
\* loading state is on; a sample pick or an upload during the request does
\* not turn it off before the request finishes.
RequestKeepsLoading ==
  (BagCardinality(styleReqs) + BagCardinality(videoJobs) > 0) => loading

\* C40: a placement click is applied to at most one styling request.  A
\* stored click position only comes from a click on the image; dispatching
\* a styling request and setting a new base image clear it; the dispatched
\* request carries a placement phrase exactly when a position was stored,
\* so a request that follows without a new click carries none; a style
\* action rejected for missing input leaves the stored position in place.
ClickUsedOnce ==
  [][/\ clickPosition' # NULL =>
          (clickPosition' = clickPosition \/ lastOp'.op = "imageClick")
     /\ lastOp'.op = "setNewBaseImage" => clickPosition' = NULL
     /\ lastOp'.op = "styleRejected" => clickPosition' = clickPosition
     /\ lastOp'.op = "styleDispatch" =>
          /\ clickPosition' = NULL
          /\ \E r \in BagToSet(styleReqs') :
               /\ CopiesIn(r, styleReqs') = CopiesIn(r, styleReqs) + 1
               /\ (r.hint = NULL) <=> (clickPosition = NULL)]_vars

\* A request carrying a placement phrase was just dispatched and the
\* stored position is gone.
ClickUsedOnce_Witness ==
  /\ lastOp.op = "styleDispatch"
  /\ clickPosition = NULL
  /\ \E r \in BagToSet(styleReqs) : r.hint # NULL

\* The part of a prompt value from its first to its last non-whitespace
\* fragment.
Trimmed(v) ==
  LET solid == {i \in 1..Len(v) : v[i] \notin {" ", "\n"}}
  IN IF solid = {} THEN <<>>
     ELSE SubSeq(v, CHOOSE i \in solid : \A j \in solid : i <= j,
                    CHOOSE i \in solid : \A j \in solid : j <= i)

\* C31: every styling request carries the image that is in the current
\* slot when it is issued, and its instruction is the trimmed user text,
\* followed by a space and the placement phrase when a click position is
\* set, and alone when none is set.
RequestCarriesCurrent ==
  [][lastOp'.op = "styleDispatch" =>
       \E r \in BagToSet(styleReqs') :
         /\ CopiesIn(r, styleReqs') = CopiesIn(r, styleReqs) + 1
         /\ r.img = currentImage
         /\ r.img # NULL
         /\ Trimmed(lastOp'.value) # <<>>
         /\ r.text =
              IF clickPosition = NULL THEN Trimmed(lastOp'.value)
              ELSE Trimmed(lastOp'.value) \o <<" ">>
                     \o PlacementGrid[Band(clickPosition.y)]
                                      [Band(clickPosition.x)]]_vars

\* After a styling and an undo the current slot holds the first styled
\* snapshot, not original, and a request for it was just issued from a
\* padded prompt with a click position set.
RequestCarriesCurrent_Witness ==
  /\ lastOp.op = "styleDispatch"
  /\ lastOp.value = <<"\n", "add", " ", "a lamp", " ">>
  /\ currentImage = Styled(1)
  /\ originalImage = Base(1)
  /\ Len(history) = 2
  /\ historyIndex = 0
  /\ \E r \in BagToSet(styleReqs) :
       /\ r.img = Styled(1)
       /\ r.text = <<"add", " ", "a lamp", " ", "at the ", "top">>

\* C39: a message timer is never overwritten while running and never
\* outlives its requests: the only timer that can be running is the one
\* the handle refers to, the handle is null whenever the style control is
\* enabled, and no timer runs once no styling or video request is in
\* flight.
TimerNeverLeaks ==
  /\ BagCardinality(timers) =
       (IF messageInterval = "none" THEN 0 ELSE 1)
  /\ messageInterval # "none" => BagIn(messageInterval, timers)
  /\ ~loading => messageInterval = "none"
  /\ BagCardinality(styleReqs) + BagCardinality(videoJobs) = 0 =>
       BagCardinality(timers) = 0

\* The video timer has just fired while its job is being polled, and it is
\* the only timer running.
TimerNeverLeaks_Witness ==
  /\ lastOp.op = "timerTick"
  /\ messageInterval = "video"
  /\ BagCardinality(timers) = 1
  /\ \E j \in BagToSet(videoJobs) : j.at = "poll"

\* Number of video jobs of q suspended at stage at.
AtStage(q, at) ==
  LET S == {j \in BagToSet(q) : j.at = at}
  IN BagCardinality([j \in S |-> CopiesIn(j, q)])

\* C32 as stated: in a video-generation run the download link is fetched
\* only after the submit or a poll has reported the job done; a job
\* reported not done is polled again and nothing is fetched or changed; a
\* done job without a link, and a fetch that fails, end in the failure
\* outcome: the failure text is shown, loading ends, no video is shown,
\* and original, current, lastStyled and the ledger are unchanged.
VideoFetchAfterDone ==
  [][/\ AtStage(videoJobs', "fetch") > AtStage(videoJobs, "fetch") =>
          /\ lastOp'.value = <<"done", "link">>
          /\ AtStage(videoJobs', "fetch") = AtStage(videoJobs, "fetch") + 1
          /\ AtStage(videoJobs', "generate") + AtStage(videoJobs', "poll")
               = AtStage(videoJobs, "generate")
                   + AtStage(videoJobs, "poll") - 1
     /\ (lastOp'.op \in {"videoPending", "videoFinalizing", "videoFailed"}
           /\ lastOp'.value \in {<<"pending", "link">>,
                                  <<"pending", "no link">>}) =>
          /\ lastOp'.op = "videoPending"
          /\ AtStage(videoJobs', "fetch") = AtStage(videoJobs, "fetch")
          /\ AtStage(videoJobs', "blob") = AtStage(videoJobs, "blob")
          /\ AtStage(videoJobs', "poll") >= 1
          /\ BagCardinality(videoJobs') = BagCardinality(videoJobs)
          /\ UNCHANGED progVars
     /\ (lastOp'.op \in {"videoPending", "videoFinalizing", "videoFailed"}
           /\ lastOp'.value \in {<<"done", "no link">>,
                                  <<"fetch", "not ok">>}) =>
          /\ lastOp'.op = "videoFailed"
          /\ responseText' =
               (IF lastOp'.value[1] = "done"
                  THEN <<"Video generation failed: ",
                         "No video generated. Please try again or check your API quota.",
                         ". Please check your API key and try again.">>
                  ELSE <<"Video generation failed: ",
                         "Failed to download video: ", "Forbidden",
                         ". Please check your API key and try again.">>)
     /\ lastOp'.op = "videoFailed" =>
          /\ responseText'[1] = "Video generation failed: "
          /\ ~loading'
          /\ BagCardinality(videoJobs') = BagCardinality(videoJobs) - 1
          /\ videoContainerHidden'
          /\ UNCHANGED slots]_vars

\* C34 as stated, from the first base image on (until then the controls
\* are as the page's markup has them): the video, comparison,
\* cost-estimation, download, share and copy controls are enabled only if
\* lastStyled is set.
ControlsNeedStyled ==
  originalImage # NULL =>
    ((~videoButtonDisabled \/ ~actionButtonsDisabled
        \/ ~estimateCostDisabled) => lastStyledImage # NULL)

\* The state a finished request leaves: loading is off, so the style
\* button and the prompt input are enabled, and the video button is
\* enabled exactly when lastStyled is set.
ControlsRestored ==
  /\ ~loading
  /\ videoButtonDisabled = (lastStyledImage = NULL)

\* C33: every started styling request and every started video run
\* eventually finishes, on the success, soft-failure and hard-failure
\* paths alike, in a state with loading off, the style button and prompt
\* input enabled and the video button enabled exactly when lastStyled is
\* set.
RequestsFinish ==
  /\ (lastOp.op = "styleDispatch") ~>
       (lastOp.op \in {"styleImage", "styleNoImage", "styleError"}
          /\ ControlsRestored)
  /\ (lastOp.op = "videoSubmit") ~>
       (lastOp.op \in {"videoReady", "videoFailed"} /\ ControlsRestored)

\* A video run has just failed after a styling succeeded: nothing is
\* awaited, loading is off and the video button is enabled.
RequestsFinish_Witness ==
  /\ lastOp.op = "videoFailed"
  /\ InFlight = 0
  /\ lastStyledImage # NULL
  /\ ~loading
  /\ ~videoButtonDisabled
====
